---- MODULE Spec2Model ----
\* Model of the concurrent cache benchmark harness: bench_cache (src/main.rs)
\* driving the three Cache adapters of src/cache.rs.
EXTENDS Integers, Naturals, Sequences, FiniteSets, TLC

\* ---------------------------------------------------------------------------
\* Bounds of the model. The program fixes CACHE_SIZE, NUM_THREADS and
\* OPS_PER_THREAD at compile time; the model ranges over small configurations.
\* ---------------------------------------------------------------------------
MaxCapacity == 2
MaxThreads == 3
MaxOps == 3
MaxTotalOps == 6
MaxMem == 1
MaxElapsed == 1

NanosPerMilli == 1000000

VARIABLES
    backend,            \* which Cache impl the run drives: "quick", "lru", "sized"
    CACHE_SIZE,         \* capacity of the cache
    NUM_THREADS,        \* number of workers
    OPS_PER_THREAD,     \* iterations per worker
    cache,              \* the shared store: sequence of <<key, value>>, most recently used first
    cache_lock,         \* set of workers holding the Mutex around the lru / sized cache
    hit_counter,        \* value inside Arc<Mutex<u64>>
    hit_lock,           \* set of workers holding the hit_counter guard
    pc,                 \* per worker: position in the closure
    i,                  \* per worker: loop index
    key,                \* per worker: key of the current iteration
    local_hits,         \* per worker
    local_unique_keys,  \* per worker
    main_pc,            \* position of the orchestrator in bench_cache
    initial_mem,
    keys,               \* Vec of the workers' returned key sets
    elapsed,            \* Duration in nanoseconds
    hits,               \* what the orchestrator read from hit_counter
    unique_keys,
    total_entries,
    dropped,            \* bookkeeping objects already dropped
    memory_used,
    results,            \* BenchResult records returned
    get_calls,          \* history: per worker, sequence of <<op index, key>> passed to get_key
    set_calls,          \* history: per worker, sequence of <<key, value>> passed to set_key
    some_returns,       \* history: per worker, number of get_key calls that returned Some
    guard_takes,        \* history: per worker, sequence of loop indices at which hit_counter.lock() was taken
    mem_samples,        \* history: the memory_stats() readings as returned (Option), in order
    events              \* history: the orchestrator's statements executed so far, in order

cfgvars == <<backend, CACHE_SIZE, NUM_THREADS, OPS_PER_THREAD>>
workervars == <<pc, i, key, local_hits, local_unique_keys>>
sharedvars == <<cache, cache_lock, hit_counter, hit_lock>>
mainvars == <<main_pc, initial_mem, keys, elapsed, hits, unique_keys, total_entries,
              dropped, memory_used, results>>
histvars == <<get_calls, set_calls, some_returns, guard_takes>>
measvars == <<mem_samples, events>>
vars == <<cfgvars, workervars, sharedvars, mainvars, histvars, measvars>>

Backends == {"quick", "lru", "sized"}
Locked == {"lru", "sized"}
Workers == 0 .. (NUM_THREADS - 1)

\* ---------------------------------------------------------------------------
\* Pure helpers
\* ---------------------------------------------------------------------------
Min(a, b) == IF a <= b THEN a ELSE b

\* Option<T>: <<>> is None, <<v>> is Some(v).
None == <<>>
Some(v) == <<v>>
UnwrapOr(o, d) == IF o = None THEN d ELSE o[1]

\* let value = |key: usize| format!("value_{key}");
value_gen(k) == <<"value_", k>>

\* Faulty variants of the key generation: a modulus one too large; the thread
\* offset left out.
KeyGenOffByOne(thread_id, idx, ops, capacity) == (idx + thread_id * ops) % (capacity * 2 + 1)

KeyGenNoOffset(thread_id, idx, ops, capacity) == idx % (capacity * 2)

\* let key = (i + thread_id * OPS_PER_THREAD) % (CACHE_SIZE * 2);
KeyGen(thread_id, idx, ops, capacity) == (idx + thread_id * ops) % (capacity * 2)

\* Faulty variant: the loop stops one iteration early.
LoopCondSkipLast(idx, ops) == idx < ops - 1

\* for i in 0..OPS_PER_THREAD
LoopCond(idx, ops) == idx < ops

\* Positions of key k in the store c.
Positions(c, k) == {p \in 1 .. Len(c) : c[p][1] = k}
Contains(c, k) == Positions(c, k) # {}
Remove(c, p) == SubSeq(c, 1, p - 1) \o SubSeq(c, p + 1, Len(c))

\* Lookup of a present key; the entry becomes the most recently used.
Peek(c, k) == IF Contains(c, k) THEN Some(c[CHOOSE p \in Positions(c, k) : TRUE][2]) ELSE None
Promote(c, k) ==
    IF Contains(c, k)
    THEN LET p == CHOOSE q \in Positions(c, k) : TRUE IN <<c[p]>> \o Remove(c, p)
    ELSE c

\* LruCache::put / SizedCache::cache_set: overwrite or insert as most recently
\* used; at capacity the least recently used entry is evicted first.
LruPut(c, k, v, capacity) ==
    IF Contains(c, k)
    THEN <<<<k, v>>>> \o Remove(c, CHOOSE q \in Positions(c, k) : TRUE)
    ELSE IF Len(c) >= capacity
         THEN <<<<k, v>>>> \o SubSeq(c, 1, capacity - 1)
         ELSE <<<<k, v>>>> \o c

\* f64 division as the record needs it: x / 0.0 is inf for x > 0 and NaN for x = 0.
F64Div(n, d) ==
    IF d = 0
    THEN [kind |-> IF n = 0 THEN "NaN" ELSE "inf", num |-> n, den |-> d]
    ELSE [kind |-> "finite", num |-> n, den |-> d]

\* final_mem.saturating_sub(initial_mem)
SaturatingSub(a, b) == IF a >= b THEN a - b ELSE 0

\* keys.into_iter().fold(HashSet::new(), |mut acc, keys| { acc.extend(keys); acc })
RECURSIVE FoldExtend(_, _)
FoldExtend(acc, ks) ==
    IF ks = <<>> THEN acc ELSE FoldExtend(acc \cup Head(ks), Tail(ks))

\* memory_stats().map(|stats| stats.physical_mem): None when unavailable.
MemReadings == {None} \cup {Some(m) : m \in 0 .. MaxMem}

\* ---------------------------------------------------------------------------
\* Initial state: bench_cache entered with an empty cache; hit_counter = 0.
\* ---------------------------------------------------------------------------
InitFor(b, cap, n, ops) ==
    /\ backend = b
    /\ CACHE_SIZE = cap
    /\ NUM_THREADS = n
    /\ OPS_PER_THREAD = ops
    /\ cache = <<>>
    /\ cache_lock = {}
    /\ hit_counter = 0
    /\ hit_lock = {}
    /\ pc = [w \in 0 .. (n - 1) |-> "idle"]
    /\ i = [w \in 0 .. (n - 1) |-> 0]
    /\ key = [w \in 0 .. (n - 1) |-> 0]
    /\ local_hits = [w \in 0 .. (n - 1) |-> 0]
    /\ local_unique_keys = [w \in 0 .. (n - 1) |-> {}]
    /\ main_pc = "initial_mem"
    /\ initial_mem = 0
    /\ keys = <<>>
    /\ elapsed = 0
    /\ hits = 0
    /\ unique_keys = {}
    /\ total_entries = 0
    /\ dropped = {}
    /\ memory_used = 0
    /\ results = <<>>
    /\ get_calls = [w \in 0 .. (n - 1) |-> <<>>]
    /\ set_calls = [w \in 0 .. (n - 1) |-> <<>>]
    /\ some_returns = [w \in 0 .. (n - 1) |-> 0]
    /\ guard_takes = [w \in 0 .. (n - 1) |-> <<>>]
    /\ mem_samples = <<>>
    /\ events = <<>>

Init ==
    \E b \in Backends, cap \in 1 .. MaxCapacity, n \in 1 .. MaxThreads, ops \in 1 .. MaxOps :
        /\ n * ops <= MaxTotalOps
        /\ InitFor(b, cap, n, ops)

\* ---------------------------------------------------------------------------
\* QuickCache (quick_cache::sync::Cache): internally synchronised, so get and
\* insert are single atomic steps. Its replacement policy is not pinned down:
\* an insert of a new key may evict any one entry (the new one included), and
\* must evict one when the store would exceed the capacity.
\* ---------------------------------------------------------------------------
RECURSIVE SortedStore(_)
SortedStore(es) ==
    IF es = {} THEN <<>>
    ELSE LET e == CHOOSE x \in es : \A y \in es : x[1] <= y[1]
         IN <<e>> \o SortedStore(es \ {e})

Entries(c) == {c[p] : p \in 1 .. Len(c)}

QuickInsertOutcomes(c, k, v, capacity) ==
    LET others == {e \in Entries(c) : e[1] # k}
        full == others \cup {<<k, v>>}
    IN  IF Contains(c, k)
        THEN {SortedStore(full)}
        ELSE {SortedStore(full \ {e}) : e \in full}
             \cup (IF Cardinality(full) <= capacity THEN {SortedStore(full)} ELSE {})

\* ---------------------------------------------------------------------------
\* Orchestrator, before the workers
\* ---------------------------------------------------------------------------
\* let initial_mem = memory_stats().map(|stats| stats.physical_mem).unwrap_or(0);
SampleInitialMem ==
    /\ main_pc = "initial_mem"
    /\ \E m \in MemReadings :
          /\ mem_samples' = Append(mem_samples, m)
          /\ initial_mem' = UnwrapOr(m, 0)
    /\ main_pc' = "start"
    /\ events' = Append(events, "initial_mem")
    /\ UNCHANGED <<cfgvars, workervars, sharedvars, histvars, keys, elapsed, hits,
                   unique_keys, total_entries, dropped, memory_used, results>>

\* Loop head of worker thread_id at index idx: `for i in 0..OPS_PER_THREAD`, the
\* key generation and local_unique_keys.insert(key); past the last index the
\* worker goes on to its merge. These steps touch only the worker's own state.
HeadPc(idx) == IF LoopCond(idx, OPS_PER_THREAD) THEN "get" ELSE "merge"

\* Faulty variant: a key that also depends on what the cache holds at the time.
HeadKeyByCache(thread_id, idx, old) ==
    IF LoopCond(idx, OPS_PER_THREAD)
    THEN KeyGen(thread_id, idx + Len(cache), OPS_PER_THREAD, CACHE_SIZE)
    ELSE old

HeadKey(thread_id, idx, old) ==
    IF LoopCond(idx, OPS_PER_THREAD)
    THEN KeyGen(thread_id, idx, OPS_PER_THREAD, CACHE_SIZE)
    ELSE old
HeadKeys(thread_id, idx, old) ==
    IF LoopCond(idx, OPS_PER_THREAD)
    THEN old \cup {KeyGen(thread_id, idx, OPS_PER_THREAD, CACHE_SIZE)}
    ELSE old

\* let start = Instant::now(); (0..NUM_THREADS).into_par_iter().map(|thread_id| ..):
\* one closure per thread_id, each entering its loop at index 0.
StartWorkers ==
    /\ main_pc = "start"
    /\ main_pc' = "join"
    /\ pc' = [w \in Workers |-> HeadPc(0)]
    /\ key' = [w \in Workers |-> HeadKey(w, 0, key[w])]
    /\ local_unique_keys' = [w \in Workers |-> HeadKeys(w, 0, {})]
    /\ local_hits' = [w \in Workers |-> 0]
    /\ events' = Append(events, "start")
    /\ UNCHANGED <<cfgvars, mem_samples, sharedvars, histvars, i, initial_mem, keys, elapsed, hits,
                   unique_keys, total_entries, dropped, memory_used, results>>

\* ---------------------------------------------------------------------------
\* Worker closure (thread_id = w)
\* ---------------------------------------------------------------------------
\* The rest of an iteration after get_key returned r:
\*   if let Some(_) = r { local_hits += 1 } else { value_gen(key); set_key(..) }
\* followed, on a hit, by the next loop head.
\* Faulty variant: the else is missing, so value_gen and set_key also follow a hit.
AfterGetNoElse(w, r) ==
    /\ some_returns' = [some_returns EXCEPT ![w] = IF r # None THEN @ + 1 ELSE @]
    /\ local_hits' = [local_hits EXCEPT ![w] = IF r # None THEN @ + 1 ELSE @]
    /\ pc' = [pc EXCEPT ![w] = "set"]
    /\ UNCHANGED <<i, key, local_unique_keys>>

AfterGet(w, r) ==
    /\ some_returns' = [some_returns EXCEPT ![w] = IF r # None THEN @ + 1 ELSE @]
    /\ IF r # None
       THEN /\ local_hits' = [local_hits EXCEPT ![w] = @ + 1]
            /\ i' = [i EXCEPT ![w] = @ + 1]
            /\ pc' = [pc EXCEPT ![w] = HeadPc(i[w] + 1)]
            /\ key' = [key EXCEPT ![w] = HeadKey(w, i[w] + 1, @)]
            /\ local_unique_keys' = [local_unique_keys EXCEPT ![w] = HeadKeys(w, i[w] + 1, @)]
       ELSE /\ pc' = [pc EXCEPT ![w] = "set"]
            /\ UNCHANGED <<local_hits, i, key, local_unique_keys>>

\* Faulty variant: the unique-key set is one set shared by all the workers.
AfterSetSharedKeys(w) ==
    /\ i' = [i EXCEPT ![w] = @ + 1]
    /\ pc' = [pc EXCEPT ![w] = HeadPc(i[w] + 1)]
    /\ key' = [key EXCEPT ![w] = HeadKey(w, i[w] + 1, @)]
    /\ local_unique_keys' = [v \in Workers |-> HeadKeys(w, i[w] + 1, local_unique_keys[v])]

\* The end of an iteration after set_key returned: the next loop head.
AfterSet(w) ==
    /\ i' = [i EXCEPT ![w] = @ + 1]
    /\ pc' = [pc EXCEPT ![w] = HeadPc(i[w] + 1)]
    /\ key' = [key EXCEPT ![w] = HeadKey(w, i[w] + 1, @)]
    /\ local_unique_keys' = [local_unique_keys EXCEPT ![w] = HeadKeys(w, i[w] + 1, @)]

\* Arc<QuickCache>::get_key: self.get(key)
QuickGet(w) ==
    /\ pc[w] = "get"
    /\ backend = "quick"
    /\ get_calls' = [get_calls EXCEPT ![w] = Append(@, <<i[w], key[w]>>)]
    /\ AfterGet(w, Peek(cache, key[w]))
    /\ UNCHANGED <<cfgvars, measvars, sharedvars, mainvars, set_calls, guard_takes>>

\* Faulty variant: a lock that never excludes.
CanLockAlways(holders) == TRUE

\* A parking_lot Mutex can be taken when nobody holds it.
CanLock(holders) == holders = {}

\* Faulty variant: a guard that is never released.
ReleaseKeep(holders, w) == holders

\* Dropping a guard releases the Mutex.
Release(holders, w) == holders \ {w}

\* Arc<Mutex<..>>::get_key: self.lock()
LockGet(w) ==
    /\ pc[w] = "get"
    /\ backend \in Locked
    /\ CanLock(cache_lock)
    /\ cache_lock' = cache_lock \cup {w}
    /\ get_calls' = [get_calls EXCEPT ![w] = Append(@, <<i[w], key[w]>>)]
    /\ pc' = [pc EXCEPT ![w] = "get_in"]
    /\ UNCHANGED <<cfgvars, measvars, mainvars, cache, hit_counter, hit_lock, i, key, local_hits,
                   local_unique_keys, set_calls, some_returns, guard_takes>>

\* Faulty variant: on a miss the guard taken by get_key is kept until set_key.
AccessGetKeepGuard(w) ==
    /\ pc[w] = "get_in"
    /\ cache' = Promote(cache, key[w])
    /\ cache_lock' = IF Contains(cache, key[w]) THEN Release(cache_lock, w) ELSE cache_lock
    /\ AfterGet(w, Peek(cache, key[w]))
    /\ UNCHANGED <<cfgvars, measvars, mainvars, hit_counter, hit_lock, get_calls, set_calls,
                   guard_takes>>

\* .get(key).cloned() / .cache_get(key).cloned() under the guard; the temporary
\* guard is dropped at the end of the statement and get_key returns.
AccessGet(w) ==
    /\ pc[w] = "get_in"
    /\ cache' = Promote(cache, key[w])
    /\ cache_lock' = Release(cache_lock, w)
    /\ AfterGet(w, Peek(cache, key[w]))
    /\ UNCHANGED <<cfgvars, measvars, mainvars, hit_counter, hit_lock, get_calls, set_calls, guard_takes>>

\* Faulty variant: the value is generated from the loop index, not from the key.
ValueForIndex(w) == value_gen(i[w])

\* let value = value_gen(key);
ValueFor(w) == value_gen(key[w])

\* Arc<QuickCache>::set_key: self.insert(key, value)
QuickSet(w) ==
    /\ pc[w] = "set"
    /\ backend = "quick"
    /\ cache' \in QuickInsertOutcomes(cache, key[w], ValueFor(w), CACHE_SIZE)
    /\ set_calls' = [set_calls EXCEPT ![w] = Append(@, <<key[w], ValueFor(w)>>)]
    /\ AfterSet(w)
    /\ UNCHANGED <<cfgvars, measvars, mainvars, cache_lock, hit_counter, hit_lock, local_hits,
                   get_calls, some_returns, guard_takes>>

\* Arc<Mutex<..>>::set_key: self.lock()
LockSet(w) ==
    /\ pc[w] = "set"
    /\ backend \in Locked
    /\ CanLock(cache_lock)
    /\ cache_lock' = cache_lock \cup {w}
    /\ set_calls' = [set_calls EXCEPT ![w] = Append(@, <<key[w], ValueFor(w)>>)]
    /\ pc' = [pc EXCEPT ![w] = "set_in"]
    /\ UNCHANGED <<cfgvars, measvars, mainvars, cache, hit_counter, hit_lock, i, key, local_hits,
                   local_unique_keys, get_calls, some_returns, guard_takes>>

\* .put(key, value) / .cache_set(key, value) under the guard; the guard is
\* dropped and set_key returns.
AccessSet(w) ==
    /\ pc[w] = "set_in"
    /\ cache' = LruPut(cache, key[w], ValueFor(w), CACHE_SIZE)
    /\ cache_lock' = Release(cache_lock, w)
    /\ AfterSet(w)
    /\ UNCHANGED <<cfgvars, measvars, mainvars, histvars, hit_counter, hit_lock, local_hits>>

\* Faulty variant: the merge proceeds without taking the guard.
LockHitsNoGuard(w) ==
    /\ pc[w] = "merge"
    /\ pc' = [pc EXCEPT ![w] = "merge_in"]
    /\ UNCHANGED <<cfgvars, measvars, mainvars, sharedvars, histvars, i, key, local_hits,
                   local_unique_keys>>

\* let mut hits = hit_counter.lock();
LockHits(w) ==
    /\ pc[w] = "merge"
    /\ CanLock(hit_lock)
    /\ hit_lock' = hit_lock \cup {w}
    /\ guard_takes' = [guard_takes EXCEPT ![w] = Append(@, i[w])]
    /\ pc' = [pc EXCEPT ![w] = "merge_in"]
    /\ UNCHANGED <<cfgvars, measvars, mainvars, cache, cache_lock, hit_counter, i, key, local_hits,
                   local_unique_keys, get_calls, set_calls, some_returns>>

\* Faulty variant: the local count is added twice.
MergedTwice(total, local) == total + local + local

\* *hits += local_hits;
Merged(total, local) == total + local

\* *hits += local_hits; the closure returns local_unique_keys and the hits
\* guard is dropped on the way out.
AddHits(w) ==
    /\ pc[w] = "merge_in"
    /\ hit_counter' = Merged(hit_counter, local_hits[w])
    /\ hit_lock' = Release(hit_lock, w)
    /\ pc' = [pc EXCEPT ![w] = "done"]
    /\ UNCHANGED <<cfgvars, measvars, mainvars, histvars, cache, cache_lock, i, key,
                   local_hits, local_unique_keys>>

\* ---------------------------------------------------------------------------
\* Orchestrator, after the workers
\* ---------------------------------------------------------------------------
\* .collect::<Vec<_>>(): returns once every closure has returned, in thread_id order.
Collect ==
    /\ main_pc = "join"
    /\ \A w \in Workers : pc[w] = "done"
    /\ keys' = [n \in 1 .. NUM_THREADS |-> local_unique_keys[n - 1]]
    /\ main_pc' = "elapsed"
    /\ events' = Append(events, "collect")
    /\ UNCHANGED <<cfgvars, mem_samples, workervars, sharedvars, histvars, initial_mem, elapsed, hits,
                   unique_keys, total_entries, dropped, memory_used, results>>

\* let elapsed = start.elapsed();
TakeElapsed ==
    /\ main_pc = "elapsed"
    /\ \E e \in 0 .. MaxElapsed : elapsed' = e
    /\ main_pc' = "read_hits"
    /\ events' = Append(events, "elapsed")
    /\ UNCHANGED <<cfgvars, mem_samples, workervars, sharedvars, histvars, initial_mem, keys, hits,
                   unique_keys, total_entries, dropped, memory_used, results>>

\* let hits = *hit_counter.lock();
ReadHits ==
    /\ main_pc = "read_hits"
    /\ CanLock(hit_lock)
    /\ hits' = hit_counter
    /\ main_pc' = "fold"
    /\ events' = Append(events, "read_hits")
    /\ UNCHANGED <<cfgvars, mem_samples, workervars, sharedvars, histvars, initial_mem, keys, elapsed,
                   unique_keys, total_entries, dropped, memory_used, results>>

\* Faulty variant: the sum of the workers' set sizes instead of the union's size.
RECURSIVE SumOfSizes(_)
SumOfSizes(ks) == IF ks = <<>> THEN 0 ELSE Cardinality(Head(ks)) + SumOfSizes(Tail(ks))

EntriesNaiveSum(ks) == SumOfSizes(ks)

\* unique_keys = keys.into_iter().fold(..); total_entries = unique_keys.len()
EntriesOf(ks) == Cardinality(FoldExtend({}, ks))

\* keys.into_iter() consumes the Vec of the workers' sets.
FoldUnion ==
    /\ main_pc = "fold"
    /\ unique_keys' = FoldExtend({}, keys)
    /\ total_entries' = EntriesOf(keys)
    /\ dropped' = dropped \cup {"keys"}
    /\ main_pc' = "drop"
    /\ events' = Append(events, "fold")
    /\ UNCHANGED <<cfgvars, mem_samples, workervars, sharedvars, histvars, initial_mem, keys, elapsed, hits,
                   memory_used, results>>

\* The structures bench_cache builds for its own accounting: the shared hit
\* counter, the Vec of the workers' key sets, the merged key set.
Bookkeeping == {"hit_counter", "keys", "unique_keys"}

\* Faulty variant: drop(unique_keys) is left out.
DropOnlyHitCounter ==
    /\ main_pc = "drop"
    /\ dropped' = dropped \cup {"hit_counter"}
    /\ main_pc' = "final_mem"
    /\ events' = Append(events, "drop")
    /\ UNCHANGED <<cfgvars, mem_samples, workervars, sharedvars, histvars, initial_mem, keys,
                   elapsed, hits, unique_keys, total_entries, memory_used, results>>

\* drop(hit_counter); drop(unique_keys);
DropBookkeeping ==
    /\ main_pc = "drop"
    /\ dropped' = dropped \cup {"hit_counter", "unique_keys"}
    /\ main_pc' = "final_mem"
    /\ events' = Append(events, "drop")
    /\ UNCHANGED <<cfgvars, mem_samples, workervars, sharedvars, histvars, initial_mem, keys, elapsed, hits,
                   unique_keys, total_entries, memory_used, results>>

\* final_mem = memory_stats()...unwrap_or(0); memory_used = final_mem.saturating_sub(initial_mem)
SampleFinalMem ==
    /\ main_pc = "final_mem"
    /\ \E m \in MemReadings :
          /\ mem_samples' = Append(mem_samples, m)
          /\ memory_used' = SaturatingSub(UnwrapOr(m, 0), initial_mem)
    /\ main_pc' = "result"
    /\ events' = Append(events, "final_mem")
    /\ UNCHANGED <<cfgvars, workervars, sharedvars, histvars, initial_mem, keys, elapsed, hits,
                   unique_keys, total_entries, dropped, results>>

\* Faulty variant: the operands of the division swapped.
HitRateSwapped(h, ops) == F64Div(ops, h)

\* hit_rate: hits as f64 / total_ops as f64
HitRate(h, ops) == F64Div(h, ops)

\* let total_ops = NUM_THREADS * OPS_PER_THREAD;
total_ops == NUM_THREADS * OPS_PER_THREAD

\* BenchResult { total_entries, name, total_time, hit_rate, memory_mb, ops_per_sec }
\* ops_per_sec divides by elapsed.as_secs_f64(): its den is the duration, kept in
\* nanoseconds, which is 0.0 seconds exactly when elapsed is zero.
BenchResult ==
    [ total_entries |-> total_entries,
      name          |-> backend,
      total_time    |-> elapsed \div NanosPerMilli,
      hit_rate      |-> HitRate(hits, total_ops),
      memory_mb     |-> F64Div(memory_used, 1024 * 1024),
      ops_per_sec   |-> F64Div(total_ops, elapsed) ]

ReturnResult ==
    /\ main_pc = "result"
    /\ results' = Append(results, BenchResult)
    /\ main_pc' = "done"
    /\ events' = Append(events, "result")
    /\ UNCHANGED <<cfgvars, mem_samples, workervars, sharedvars, histvars, initial_mem, keys, elapsed, hits,
                   unique_keys, total_entries, dropped, memory_used>>

\* ---------------------------------------------------------------------------
\* Specifications
\* ---------------------------------------------------------------------------
WorkerStep(w) ==
    /\ w \in Workers
    /\ \/ QuickGet(w)
       \/ LockGet(w)
       \/ AccessGet(w)
       \/ QuickSet(w)
       \/ LockSet(w)
       \/ AccessSet(w)
       \/ LockHits(w)
       \/ AddHits(w)

MainStep ==
    \/ SampleInitialMem
    \/ StartWorkers
    \/ Collect
    \/ TakeElapsed
    \/ ReadHits
    \/ FoldUnion
    \/ DropBookkeeping
    \/ SampleFinalMem
    \/ ReturnResult

Next ==
    \/ SampleInitialMem
    \/ StartWorkers
    \/ \E w \in Workers : QuickGet(w)
    \/ \E w \in Workers : LockGet(w)
    \/ \E w \in Workers : AccessGet(w)
    \/ \E w \in Workers : QuickSet(w)
    \/ \E w \in Workers : LockSet(w)
    \/ \E w \in Workers : AccessSet(w)
    \/ \E w \in Workers : LockHits(w)
    \/ \E w \in Workers : AddHits(w)
    \/ Collect
    \/ TakeElapsed
    \/ ReadHits
    \/ FoldUnion
    \/ DropBookkeeping
    \/ SampleFinalMem
    \/ ReturnResult

Spec == Init /\ [][Next]_vars

\* The same harness under the scheduling the thread pool provides: every worker
\* thread that can take a step eventually does, and so does the orchestrator.
FairSpec ==
    /\ Init
    /\ [][Next]_vars
    /\ \A w \in 0 .. (MaxThreads - 1) : WF_vars(WorkerStep(w))
    /\ WF_vars(MainStep)

\* The end-to-end scenario of the specification: capacity 4, 2 threads, 4
\* operations per thread, on each backend.
ScenarioInit == \E b \in Backends : InitFor(b, 4, 2, 4)

SpecScenario == ScenarioInit /\ [][Next]_vars

\* ---------------------------------------------------------------------------
\* Properties
\* ---------------------------------------------------------------------------
RECURSIVE SumOver(_, _)
SumOver(f, S) ==
    IF S = {} THEN 0
    ELSE LET x == CHOOSE y \in S : TRUE IN f[x] + SumOver(f, S \ {x})

HitsRead == main_pc \in {"fold", "drop", "final_mem", "result", "done"}
Collected == main_pc \notin {"initial_mem", "start", "join"}
Finished == {w \in Workers : pc[w] = "done"}
KeysPassed(w) == {get_calls[w][n][2] : n \in 1 .. Len(get_calls[w])}
AllKeysPassed == UNION {KeysPassed(w) : w \in Workers}

\* C1: the shared hit counter always holds the sum of the get_key hits of the
\* workers that have merged (each merge counted once, none lost), and the value
\* the orchestrator reads is the sum of the get_key hits of all workers.
C1_HitsAreSumOfGetHits ==
    /\ hit_counter = SumOver(some_returns, Finished)
    /\ HitsRead => hits = SumOver(some_returns, Workers)

C1_Witness ==
    /\ main_pc = "done"
    /\ hits = 2
    /\ \E w1, w2 \in Workers : w1 # w2 /\ some_returns[w1] = 1 /\ some_returns[w2] = 1

\* C2: once the workers are collected, every worker has executed exactly the
\* operation indices 0 .. OPS_PER_THREAD - 1, each once and in order, so the
\* operations sum to NUM_THREADS * OPS_PER_THREAD.
C2_EveryOperationOnce ==
    Collected =>
        /\ DOMAIN get_calls = 0 .. (NUM_THREADS - 1)
        /\ \A w \in Workers :
              /\ Len(get_calls[w]) = OPS_PER_THREAD
              /\ \A n \in 1 .. OPS_PER_THREAD : get_calls[w][n][1] = n - 1
        /\ SumOver([w \in Workers |-> Len(get_calls[w])], Workers) = NUM_THREADS * OPS_PER_THREAD

C2_Witness ==
    /\ main_pc = "done"
    /\ NUM_THREADS = 2
    /\ OPS_PER_THREAD = 2
    /\ \A w \in Workers : Len(get_calls[w]) = 2

\* C3: total_entries of the record is the number of distinct keys the workers
\* touched (the size of the union of their key sets), at most
\* min(2 * capacity, threads * ops_per_thread).
C3_TotalEntriesIsUnion ==
    \A n \in 1 .. Len(results) :
        /\ results[n].total_entries = Cardinality(AllKeysPassed)
        /\ results[n].total_entries = Cardinality(UNION {local_unique_keys[w] : w \in Workers})
        /\ results[n].total_entries <= Min(2 * CACHE_SIZE, NUM_THREADS * OPS_PER_THREAD)

C3_Witness ==
    /\ Len(results) = 1
    /\ \E w1, w2 \in Workers : w1 # w2 /\ local_unique_keys[w1] \cap local_unique_keys[w2] # {}
    /\ results[1].total_entries < SumOver([w \in Workers |-> Cardinality(local_unique_keys[w])], Workers)

\* C4: the merged hit total stays within 0 .. total_ops, and the hit_rate of
\* every record is that total over total_ops = threads * ops_per_thread, a
\* finite value between 0 and 1.
C4_HitRateBounded ==
    /\ 0 <= hit_counter /\ hit_counter <= NUM_THREADS * OPS_PER_THREAD
    /\ \A n \in 1 .. Len(results) :
          /\ results[n].hit_rate.kind = "finite"
          /\ results[n].hit_rate.den = NUM_THREADS * OPS_PER_THREAD
          /\ results[n].hit_rate.num = SumOver(some_returns, Workers)
          /\ 0 <= results[n].hit_rate.num
          /\ results[n].hit_rate.num <= results[n].hit_rate.den

C4_Witness ==
    /\ Len(results) = 1
    /\ results[1].hit_rate.num = 2
    /\ results[1].hit_rate.den = 4

\* C5: every key passed to get_key or set_key lies in 0 .. 2 * capacity - 1 and
\* is (op index + thread_id * ops_per_thread) mod (2 * capacity).
C5_KeysInRange ==
    \A w \in Workers :
        /\ \A n \in 1 .. Len(get_calls[w]) :
              /\ get_calls[w][n][2] \in 0 .. (2 * CACHE_SIZE - 1)
              /\ get_calls[w][n][2] = (get_calls[w][n][1] + w * OPS_PER_THREAD) % (2 * CACHE_SIZE)
        /\ \A n \in 1 .. Len(set_calls[w]) :
              /\ set_calls[w][n][1] \in 0 .. (2 * CACHE_SIZE - 1)
              /\ set_calls[w][n][1] \in KeysPassed(w)

C5_Witness ==
    /\ CACHE_SIZE = 1
    /\ \E w \in Workers : w > 0 /\ KeysPassed(w) = {0, 1} /\ Len(set_calls[w]) > 0

\* C6: in the scenario capacity 4, 2 threads, 4 operations per thread, worker 0
\* touches exactly the keys 0..3 and worker 1 the keys 4..7, no get_key ever
\* hits, and the record has hit_rate 0 and total_entries 8.
C6_ScenarioAllMisses ==
    /\ \A w \in Workers : some_returns[w] = 0 /\ local_hits[w] = 0
    /\ KeysPassed(0) \subseteq 0 .. 3
    /\ KeysPassed(1) \subseteq 4 .. 7
    /\ Collected => KeysPassed(0) = 0 .. 3 /\ KeysPassed(1) = 4 .. 7
    /\ \A n \in 1 .. Len(results) :
          /\ results[n].hit_rate.num = 0
          /\ results[n].hit_rate.kind = "finite"
          /\ results[n].total_entries = 8

C6_Witness ==
    /\ CACHE_SIZE = 4 /\ NUM_THREADS = 2 /\ OPS_PER_THREAD = 4
    /\ Len(results) = 1
    /\ Len(set_calls[0]) = 4 /\ Len(set_calls[1]) = 4

\* C7: under fair scheduling every run reaches its end with exactly one record,
\* and never holds more than one.
C7_RunCompletes ==
    /\ [](Len(results) <= 1)
    /\ <>[](main_pc = "done" /\ Len(results) = 1 /\ \A w \in Workers : pc[w] = "done")

C7_Witness ==
    /\ main_pc = "done"
    /\ Len(results) = 1
    /\ backend \in Locked
    /\ NUM_THREADS = 2
    /\ \A w \in Workers : Len(set_calls[w]) > 0 /\ Len(guard_takes[w]) = 1

\* C8: with the lru and sized backends at most one worker holds the cache
\* Mutex, the holders are exactly the workers inside a get_key or set_key call,
\* and the store changes only in a step of the holder that also releases it.
C8_CacheLockExclusive ==
    /\ [](/\ Cardinality(cache_lock) <= 1
          /\ cache_lock = {w \in Workers : pc[w] \in {"get_in", "set_in"}}
          /\ backend \notin Locked => cache_lock = {})
    /\ [][(backend \in Locked /\ cache' # cache) =>
             \E w \in Workers : cache_lock = {w} /\ cache_lock' = {} /\ pc'[w] \notin {"get_in", "set_in"}]_vars

C8_Witness ==
    /\ backend \in Locked
    /\ \E w1, w2 \in Workers : w1 # w2 /\ cache_lock = {w1} /\ pc[w2] \in {"get", "set"}

\* C9: the shared hit counter changes only in a step of a worker that holds its
\* guard, and each worker takes the guard once, after its last iteration.
C9_HitGuardOncePerWorker ==
    /\ [](\A w \in Workers :
            /\ guard_takes[w] \in {<<>>, <<OPS_PER_THREAD>>}
            /\ (pc[w] \in {"merge_in", "done"}) <=> (Len(guard_takes[w]) = 1)
            /\ (w \in hit_lock) <=> (pc[w] = "merge_in")
            /\ i[w] < OPS_PER_THREAD => w \notin hit_lock)
    /\ [][hit_counter' # hit_counter =>
             \E w \in hit_lock : i[w] = OPS_PER_THREAD /\ pc[w] = "merge_in" /\ pc'[w] = "done"]_vars
    /\ [][\A w \in Workers : i[w] < OPS_PER_THREAD /\ i'[w] # i[w] => hit_counter' = hit_counter]_vars

C9_Witness ==
    /\ \E w1, w2 \in Workers : w1 # w2 /\ hit_lock = {w1} /\ pc[w2] = "merge" /\ local_hits[w1] > 0

\* C10 (as claimed): a run whose elapsed time is zero yields no record.
C10_ZeroElapsedYieldsNoRecord ==
    (main_pc = "done" /\ elapsed = 0) => results = <<>>

\* C11: once both memory samples are taken the memory delta is never negative,
\* and it is zero whenever a reading was unavailable, be it the baseline
\* sample, the final sample or both; the record reports that delta.
C11_UnavailableReadingGivesZeroDelta ==
    /\ Len(mem_samples) = 2 =>
          /\ memory_used >= 0
          /\ (mem_samples[1] = None \/ mem_samples[2] = None) => memory_used = 0
    /\ \A n \in 1 .. Len(results) : results[n].memory_mb.num = memory_used

\* C12: the total_entries of a returned record is the number of key->value
\* mappings the benchmarked cache holds at the end of the run, on every backend.
C12_TotalEntriesIsCacheLen ==
    \A n \in 1 .. Len(results) : results[n].total_entries = Len(cache)

\* The key sequence the configuration alone fixes for worker w.
KeySequence(w) == [n \in 1 .. OPS_PER_THREAD |-> KeyGen(w, n - 1, OPS_PER_THREAD, CACHE_SIZE)]
KeysPassedInOrder(w) == [n \in 1 .. Len(get_calls[w]) |-> get_calls[w][n][2]]

\* C13: on every backend and under every interleaving, whatever the cache holds,
\* the keys a worker passes to get_key are, in order, the sequence fixed by
\* (thread_id, ops_per_thread, capacity) alone: a prefix of it while the worker
\* runs, the whole of it once the worker has left its loop.
C13_KeySequenceFixedByConfig ==
    \A w \in Workers :
        /\ Len(get_calls[w]) <= OPS_PER_THREAD
        /\ KeysPassedInOrder(w) = SubSeq(KeySequence(w), 1, Len(get_calls[w]))
        /\ pc[w] \in {"get", "get_in", "set", "set_in"} =>
              key[w] = KeySequence(w)[i[w] + 1]
        /\ pc[w] \in {"merge", "merge_in", "done"} => KeysPassedInOrder(w) = KeySequence(w)

\* Two workers interleaved, one of them past a hit on a non-empty cache.
C13_Witness ==
    \E w1, w2 \in Workers :
        /\ w1 # w2
        /\ Len(get_calls[w1]) >= 2
        /\ some_returns[w1] > 0
        /\ pc[w2] \in {"get_in", "set", "set_in"}
        /\ Len(get_calls[w2]) >= 2
        /\ cache # <<>>

SetCalls == SumOver([w \in Workers |-> Len(set_calls[w])], Workers)
InIteration(w) == pc[w] \in {"get_in", "set", "set_in"}

\* C14: every iteration makes exactly one get_key call, for the generated key; a
\* hit adds one to the worker's local hit counter and makes no set_key call; a
\* miss makes exactly one set_key call, for that key with value_gen(key), and
\* leaves the local hit counter alone. So a worker's hits and set_key calls add
\* up to its completed iterations, and at the end of a run
\* total hits + set_key calls = thread_count * ops_per_thread.
C14_OneGetThenHitOrOneSet ==
    /\ [](\A w \in Workers :
            /\ Len(get_calls[w]) = i[w] + (IF InIteration(w) THEN 1 ELSE 0)
            /\ local_hits[w] = some_returns[w]
            /\ local_hits[w] + Len(set_calls[w]) = i[w] + (IF pc[w] = "set_in" THEN 1 ELSE 0))
    /\ [](HitsRead => hits + SetCalls = NUM_THREADS * OPS_PER_THREAD)
    /\ [](\A n \in 1 .. Len(results) :
            results[n].hit_rate.num + SetCalls = NUM_THREADS * OPS_PER_THREAD)
    /\ [][\A w \in Workers :
            /\ Len(get_calls'[w]) > Len(get_calls[w]) =>
                  /\ get_calls'[w] = Append(get_calls[w], <<i[w], key[w]>>)
                  /\ set_calls'[w] = set_calls[w]
            /\ local_hits'[w] # local_hits[w] =>
                  /\ local_hits'[w] = local_hits[w] + 1
                  /\ some_returns'[w] = some_returns[w] + 1
                  /\ set_calls'[w] = set_calls[w]
                  /\ i'[w] = i[w] + 1
            /\ set_calls'[w] # set_calls[w] =>
                  /\ set_calls'[w] = Append(set_calls[w], <<key[w], value_gen(key[w])>>)
                  /\ key[w] = get_calls[w][Len(get_calls[w])][2]
                  /\ some_returns'[w] = some_returns[w]
                  /\ local_hits'[w] = local_hits[w]]_vars

\* A finished run in which one worker had both a hit and a miss.
C14_Witness ==
    /\ main_pc = "done"
    /\ hits > 0
    /\ \E w \in Workers : local_hits[w] > 0 /\ Len(set_calls[w]) > 0

MeasurementOrder ==
    <<"initial_mem", "start", "collect", "elapsed", "read_hits", "fold", "drop",
      "final_mem", "result">>
Happened(e) == \E n \in 1 .. Len(events) : events[n] = e

\* C15: the measurement events of a run happen in one fixed order: baseline
\* memory sample, start time, all worker operations and merges, elapsed time,
\* union of the unique keys, release of the bookkeeping structures, second
\* memory sample. Workers act only between the start time and the elapsed time,
\* and when the second sample is taken the hit counter, the collected key sets
\* and the merged key set have all been released.
C15_MeasurementOrderFixed ==
    /\ [](events = SubSeq(MeasurementOrder, 1, Len(events)))
    /\ [](Len(mem_samples) = (IF Happened("initial_mem") THEN 1 ELSE 0)
                              + (IF Happened("final_mem") THEN 1 ELSE 0))
    /\ []((\E w \in Workers : pc[w] # "idle") => Happened("start"))
    /\ [](Happened("elapsed") => \A w \in Workers : pc[w] = "done")
    /\ [](Happened("final_mem") => dropped = Bookkeeping)
    /\ [][/\ (get_calls' # get_calls \/ set_calls' # set_calls \/ cache' # cache
              \/ hit_counter' # hit_counter \/ local_hits' # local_hits) =>
                 Happened("start") /\ ~Happened("collect")
          /\ Len(mem_samples') = 2 /\ Len(mem_samples) = 1 =>
                 /\ Bookkeeping \subseteq dropped
                 /\ Happened("elapsed") /\ Happened("fold")]_vars

\* The second sample taken after a run with hits and more than one key.
C15_Witness ==
    /\ Len(mem_samples) = 2
    /\ hits > 0
    /\ total_entries > 1
    /\ NUM_THREADS > 1

\* C16: each thread has its own key space: no key is passed to get_key or
\* set_key by two different threads.
C16_ThreadKeySpacesDisjoint ==
    \A w1, w2 \in Workers :
        w1 # w2 =>
            /\ KeysPassed(w1) \cap KeysPassed(w2) = {}
            /\ local_unique_keys[w1] \cap local_unique_keys[w2] = {}

KeysSet == UNION {{set_calls[w][n][1] : n \in 1 .. Len(set_calls[w])} : w \in Workers}
KeysHeld == {cache[p][1] : p \in 1 .. Len(cache)}
\* Entries leave a cache only by eviction: one happened when a key that was set
\* is no longer held.
Evicted == KeysSet # KeysHeld

\* C17: every completed run contains at least one get_key hit and at least one
\* get_key miss, and has evicted an entry at least once.
C17_MixOfHitsMissesAndEviction ==
    main_pc = "done" =>
        /\ SumOver(some_returns, Workers) >= 1
        /\ SetCalls >= 1
        /\ Evicted

Stepped(w) == pc'[w] # pc[w] \/ i'[w] # i[w]

\* C18: a step of one worker leaves every other worker's local hit count, local
\* unique-key set, loop index, key and position unchanged, and leaves the
\* configuration and the orchestrator's variables unchanged; the shared hit
\* counter changes only in the step that ends a worker's merge, never while a
\* worker is in its loop.
C18_WorkerStepFrame ==
    [][(main_pc = "join" /\ main_pc' = "join") =>
         \A w \in Workers :
             Stepped(w) =>
                 /\ \A v \in Workers \ {w} :
                        /\ local_hits'[v] = local_hits[v]
                        /\ local_unique_keys'[v] = local_unique_keys[v]
                        /\ i'[v] = i[v]
                        /\ key'[v] = key[v]
                        /\ pc'[v] = pc[v]
                 /\ (pc[w] # "merge_in" \/ LoopCond(i[w], OPS_PER_THREAD)) =>
                        hit_counter' = hit_counter
                 /\ pc[w] \in {"merge", "merge_in"} =>
                        /\ cache' = cache
                        /\ local_hits'[w] = local_hits[w]
                        /\ local_unique_keys'[w] = local_unique_keys[w]
                 /\ UNCHANGED <<cfgvars, mainvars, measvars>>]_vars

\* One worker has merged its hits while another, with hits of its own, is
\* still inside an iteration.
C18_Witness ==
    /\ hit_counter > 0
    /\ \E w \in Workers : InIteration(w) /\ local_hits[w] > 0 /\ i[w] > 0

SetBy(w) == {set_calls[w][n][1] : n \in 1 .. Len(set_calls[w])}

\* C19: in every reachable state every mapping the cache holds is key ->
\* value_gen(key), and a key has at most one mapping, whichever worker set it
\* last and however often it was evicted and set again.
C19_StoredValueIsValueGenOfKey ==
    /\ \A p \in 1 .. Len(cache) : cache[p][2] = value_gen(cache[p][1])
    /\ \A p, q \in 1 .. Len(cache) : cache[p][1] = cache[q][1] => p = q

\* A key set by two different workers is held again after an eviction.
C19_Witness ==
    /\ Evicted
    /\ \E w1, w2 \in Workers :
          /\ w1 # w2
          /\ \E k \in SetBy(w1) \cap SetBy(w2) : Contains(cache, k)
          /\ \E n, m \in 1 .. Len(set_calls[w1]) : n < m /\ set_calls[w1][n] = set_calls[w1][m]

\* C20: get_key and the set_key that follows a miss are two critical sections:
\* the guard taken by get_key is released when get_key returns, before any
\* set_key call is made; a worker between its miss and its set_key holds no
\* guard, so that another worker waiting at get_key or set_key can take it; and
\* set_key takes the free guard anew. Whether a get_key hits is decided by what
\* the cache holds when the get runs.
C20_MissThenSetNotAtomic ==
    /\ [](\A w \in Workers : pc[w] = "set" => w \notin cache_lock)
    /\ [](\A w, v \in Workers :
            (w # v /\ backend \in Locked /\ pc[w] = "set" /\ cache_lock = {}) =>
                /\ pc[v] = "get" => ENABLED LockGet(v)
                /\ pc[v] = "set" => ENABLED LockSet(v))
    /\ [][\A w \in Workers :
            /\ (pc[w] = "get_in" /\ pc'[w] # "get_in") =>
                  /\ cache_lock = {w} /\ cache_lock' = {}
                  /\ set_calls' = set_calls
                  /\ some_returns'[w] = some_returns[w] + (IF Contains(cache, key[w]) THEN 1 ELSE 0)
                  /\ pc'[w] = "set" <=> ~Contains(cache, key[w])
            /\ (pc[w] = "set" /\ pc'[w] = "set_in") =>
                  cache_lock = {} /\ cache_lock' = {w}]_vars

\* Capacity 1, 2 threads, 2 operations each: both workers missed on key k on the
\* empty cache; the first has set it and the second has called set_key for it too.
C20_Witness ==
    /\ backend \in Locked
    /\ CACHE_SIZE = 1 /\ NUM_THREADS = 2 /\ OPS_PER_THREAD = 2
    /\ \E w1, w2 \in Workers :
          /\ w1 # w2
          /\ pc[w2] = "set_in"
          /\ set_calls[w1] = <<<<key[w2], value_gen(key[w2])>>>>
          /\ set_calls[w2] = set_calls[w1]
          /\ Contains(cache, key[w2])
          /\ some_returns[w1] = 0 /\ some_returns[w2] = 0

\* The same configuration finished with no hit at all, and finished with two.
C20_RunWithoutHit ==
    /\ backend \in Locked
    /\ CACHE_SIZE = 1 /\ NUM_THREADS = 2 /\ OPS_PER_THREAD = 2
    /\ main_pc = "done" /\ hits = 0

C20_RunWithTwoHits ==
    /\ backend \in Locked
    /\ CACHE_SIZE = 1 /\ NUM_THREADS = 2 /\ OPS_PER_THREAD = 2
    /\ main_pc = "done" /\ hits = 2
====
